---- MODULE Spec2Model ----
(***************************************************************************)
(* WanderLens backend (server/app.py): the OCR annotation filter, the      *)
(* /ocr_translate request handler with its two outbound calls, and the     *)
(* ranking of nearby places in /attractions and /food.                     *)
(*                                                                         *)
(* JSON values are modelled as follows.  A dict is a record whose DOMAIN   *)
(* is the set of keys present, so dict.get(k, default) is Get.  A list is  *)
(* a sequence.  A number is the tagged record [n |-> k]; a JSON value that *)
(* is not a number where the code expects one is [s |-> "..."]; null is    *)
(* [null |-> TRUE].  Text is a TLA+ string.  Confidence is held in         *)
(* hundredths (0.65 is 65), the area ratio threshold as a fraction.        *)
(* A Python call that raises is the record [raised |-> TRUE].              *)
(***************************************************************************)
EXTENDS Integers, Sequences, FiniteSets, TLC

VARIABLES
    \* one call of _extract_filtered_text
    full_text_anno,        \* argument
    min_block_area_ratio,  \* argument, a fraction [num, den]
    min_confidence,        \* argument, in hundredths
    fpc,                   \* "idle" | "call" | "returned"
    fout,                  \* what the call produced: FilterRun(...)
    \* one POST /ocr_translate request
    api_key,               \* whether _google_api_key() is non-empty
    body,                  \* the request's JSON body
    pc,                    \* "idle" | "start" | "ocr_wait" | "tr_call" | "tr_wait" | "done"
    detected_text,         \* locals of ocr_translate
    translated_text,
    source_lang,
    target_lang,
    ocr_text,              \* what call_google_vision_text_detection returned
    tr_text,               \* the text call_google_translate was called with
    log,                   \* outbound calls and their outcomes, in order
    response,              \* the HTTP response, [status |-> 0] until sent
    \* one GET /attractions or GET /food request
    endpoint,              \* "attractions" | "food"
    query,                 \* the query parameters lat and lon
    ppc,                   \* "idle" | "start" | "wait" | "done"
    elements,              \* data["elements"] of the Overpass answer
    presponse              \* the HTTP response

fvars == <<full_text_anno, min_block_area_ratio, min_confidence, fpc, fout>>
rvars == <<api_key, body, pc, detected_text, translated_text, source_lang,
           target_lang, ocr_text, tr_text, log, response>>
pvars == <<endpoint, query, ppc, elements, presponse>>
vars == <<fvars, rvars, pvars>>

----------------------------------------------------------------------------
(* JSON helpers *)

EmptyDict == [k \in {} |-> 0]
Null == [null |-> TRUE]
Num(k) == [n |-> k]
NonNumeric == [s |-> "abc"]

Get(d, k, default) == IF k \in DOMAIN d THEN d[k] ELSE default
IsNum(v) == "n" \in DOMAIN v
IsNull(v) == "null" \in DOMAIN v
\* Python truthiness of a dict-or-None value
Falsy(v) == IsNull(v) \/ DOMAIN v = {}

RECURSIVE Flatten(_)
Flatten(ss) == IF ss = <<>> THEN <<>> ELSE Head(ss) \o Flatten(Tail(ss))

RECURSIVE SeqMax(_, _)
SeqMax(s, m) ==
    IF s = <<>> THEN m
    ELSE SeqMax(Tail(s), IF Head(s) > m THEN Head(s) ELSE m)

RECURSIVE SeqMin(_, _)
SeqMin(s, m) ==
    IF s = <<>> THEN m
    ELSE SeqMin(Tail(s), IF Head(s) < m THEN Head(s) ELSE m)

\* str.join of a list of strings
RECURSIVE Join(_, _)
Join(sep, ss) ==
    IF ss = <<>> THEN ""
    ELSE IF Len(ss) = 1 THEN Head(ss)
    ELSE Head(ss) \o sep \o Join(sep, Tail(ss))

\* [x for x in ss if x]
RECURSIVE NonEmpty(_)
NonEmpty(ss) ==
    IF ss = <<>> THEN <<>>
    ELSE IF Head(ss) = "" THEN NonEmpty(Tail(ss))
    ELSE <<Head(ss)>> \o NonEmpty(Tail(ss))

----------------------------------------------------------------------------
(* The annotation filter *)

\* (b.get("boundingBox") or {}).get("vertices", [])
VerticesOf(b) ==
    LET bb == Get(b, "boundingBox", Null)
    IN  Get(IF Falsy(bb) THEN EmptyDict ELSE bb, "vertices", <<>>)

\* the blocks of all pages, in page-then-block order
BlocksOf(pages) ==
    Flatten([i \in 1..Len(pages) |-> Get(pages[i], "blocks", <<>>)])

Xs(vertices) == [i \in 1..Len(vertices) |-> Get(vertices[i], "x", Num(0))]
Ys(vertices) == [i \in 1..Len(vertices) |-> Get(vertices[i], "y", Num(0))]
AllNum(vals) == \A i \in 1..Len(vals) : IsNum(vals[i])
Ints(vals) == [i \in 1..Len(vals) |-> vals[i].n]

\* _compute_box_area: max()/min() and the subtraction raise TypeError on a
\* coordinate that is not a number
_compute_box_area(vertices) ==
    IF vertices = <<>> THEN [raised |-> FALSE, area |-> 0]
    ELSE IF ~(AllNum(Xs(vertices)) /\ AllNum(Ys(vertices)))
    THEN [raised |-> TRUE, area |-> 0]
    ELSE
        LET xs == Ints(Xs(vertices))
            ys == Ints(Ys(vertices))
            width == SeqMax(xs, xs[1]) - SeqMin(xs, xs[1])
            height == SeqMax(ys, ys[1]) - SeqMin(ys, ys[1])
        IN  [raised |-> FALSE,
             area |-> (IF width > 0 THEN width ELSE 0)
                      * (IF height > 0 THEN height ELSE 0)]

\* _collect_image_dims: max(max_x, v.get("x", 0)) raises TypeError on a
\* coordinate that is not a number
_collect_image_dims(pages) ==
    LET blocks == BlocksOf(pages)
        verts == Flatten([i \in 1..Len(blocks) |-> VerticesOf(blocks[i])])
    IN  IF ~(AllNum(Xs(verts)) /\ AllNum(Ys(verts)))
        THEN [raised |-> TRUE, w |-> 1, h |-> 1]
        ELSE
            LET max_x == SeqMax(Ints(Xs(verts)), 0)
                max_y == SeqMax(Ints(Ys(verts)), 0)
            IN  [raised |-> FALSE,
                 w |-> IF max_x = 0 THEN 1 ELSE max_x,
                 h |-> IF max_y = 0 THEN 1 ELSE max_y]

\* area / img_area < min_block_area_ratio, in exact arithmetic
BelowAreaRatioInclusive(area, img_area, ratio) ==
    area * ratio.den <= ratio.num * img_area
BelowAreaRatio(area, img_area, ratio) ==
    area * ratio.den < ratio.num * img_area

BelowConfidence(conf, min_conf) == conf < min_conf

\* line 89, with Python's short-circuit `or`: the confidence is compared
\* only when the area test is false
BlockCheck(b, img_area, ratio, min_conf) ==
    LET box == _compute_box_area(VerticesOf(b))
        conf == Get(b, "confidence", Num(100))
    IN  IF box.raised THEN "raise"
        ELSE IF BelowAreaRatio(box.area, img_area, ratio) THEN "skip"
        ELSE IF ~IsNum(conf) THEN "raise"
        ELSE IF BelowConfidence(conf.n, min_conf) THEN "skip"
        ELSE "keep"

\* lines 96-97
WordText(w) ==
    LET syms == Get(w, "symbols", <<>>)
    IN  Join("", [i \in 1..Len(syms) |-> Get(syms[i], "text", "")])

\* lines 94-101: "" stands for a paragraph that appends no line
ParagraphLineUnspaced(para) ==
    LET ws == Get(para, "words", <<>>)
    IN  Join("", NonEmpty([i \in 1..Len(ws) |-> WordText(ws[i])]))
ParagraphLine(para) ==
    LET ws == Get(para, "words", <<>>)
        words == NonEmpty([i \in 1..Len(ws) |-> WordText(ws[i])])
    IN  Join(" ", words)

\* lines 92-103: "" stands for a block that appends nothing
BlockText(b) ==
    LET ps == Get(b, "paragraphs", <<>>)
        block_lines == NonEmpty([i \in 1..Len(ps) |-> ParagraphLine(ps[i])])
    IN  Join("\n", block_lines)

\* lines 105-108
FilterResultNoFallback(anno, collected_lines) == Join("\n\n", collected_lines)
FilterResult(anno, collected_lines) ==
    IF collected_lines = <<>> THEN Get(anno, "text", "")
    ELSE Join("\n\n", collected_lines)

\* the loop of lines 83-103 without the test of line 102: the text of every
\* kept block is collected, the empty one too
RECURSIVE FilterLoopKeepEmpty(_, _, _, _, _)
FilterLoopKeepEmpty(blocks, img_area, ratio, min_conf, acc) ==
    IF blocks = <<>> THEN acc
    ELSE
        LET b == Head(blocks)
            v == BlockCheck(b, img_area, ratio, min_conf)
        IN  IF v = "raise"
            THEN [acc EXCEPT !.raised = TRUE,
                             !.verdicts = Append(@, v)]
            ELSE FilterLoopKeepEmpty(Tail(blocks), img_area, ratio, min_conf,
                    [acc EXCEPT
                        !.verdicts = Append(@, v),
                        !.collected_lines =
                            IF v = "keep"
                            THEN Append(@, BlockText(b)) ELSE @])

\* the loop of lines 83-103 over the blocks in order: the verdict of each
\* block up to the first raise, and the lines collected
RECURSIVE FilterLoop(_, _, _, _, _)
FilterLoop(blocks, img_area, ratio, min_conf, acc) ==
    IF blocks = <<>> THEN acc
    ELSE
        LET b == Head(blocks)
            v == BlockCheck(b, img_area, ratio, min_conf)
        IN  IF v = "raise"
            THEN [acc EXCEPT !.raised = TRUE,
                             !.verdicts = Append(@, v)]
            ELSE FilterLoop(Tail(blocks), img_area, ratio, min_conf,
                    [acc EXCEPT
                        !.verdicts = Append(@, v),
                        !.collected_lines =
                            IF v = "keep" /\ BlockText(b) # ""
                            THEN Append(@, BlockText(b)) ELSE @])

\* _extract_filtered_text, lines 75-108
FilterRun(anno, ratio, min_conf) ==
    IF Falsy(anno)
    THEN [raised |-> FALSE, verdicts |-> <<>>, collected_lines |-> <<>>,
          img_area |-> 1, text |-> ""]
    ELSE
        LET pages == Get(anno, "pages", <<>>)
            dims == _collect_image_dims(pages)
            img_area == dims.w * dims.h
            start == [raised |-> dims.raised, verdicts |-> <<>>,
                      collected_lines |-> <<>>, img_area |-> img_area,
                      text |-> ""]
            run == IF dims.raised THEN start
                   ELSE FilterLoop(BlocksOf(pages), img_area, ratio,
                                   min_conf, start)
        IN  IF run.raised THEN run
            ELSE [run EXCEPT !.text = FilterResult(anno, run.collected_lines)]

_extract_filtered_text(anno, ratio, min_conf) ==
    LET run == FilterRun(anno, ratio, min_conf)
    IN  [raised |-> run.raised, text |-> run.text]

----------------------------------------------------------------------------
(* Inputs of the filter *)

MaxBlocks == 2      \* blocks in one annotation
ImgSide == 10       \* far corner of the largest bounding box

AreaRatioNum == 1             \* min_block_area_ratio = 0.01
AreaRatioDen == 100
DefaultMinConfidence == 60    \* min_confidence = 0.6, the default
VisionMinConfidence == 65     \* min_confidence = 0.65, the call of line 130

Thresholds ==
    {[ratio |-> [num |-> AreaRatioNum, den |-> AreaRatioDen], conf |-> c] :
        c \in {DefaultMinConfidence, VisionMinConfidence}}

Vertex(x, y) == [x |-> Num(x), y |-> Num(y)]
Rect(w, h) == <<Vertex(0, 0), Vertex(w, 0), Vertex(w, h), Vertex(0, h)>>

Symbol(t) == [text |-> t]
Word(ts) == [symbols |-> [i \in 1..Len(ts) |-> Symbol(ts[i])]]
Para(ws) == [words |-> ws]

\* bounding boxes: a unit box, two large ones, one whose vertices lack a key
Boxes ==
    {Rect(1, 1), Rect(ImgSide, ImgSide), Rect(ImgSide + 1, ImgSide),
     <<[x |-> Num(3)], [y |-> Num(3)]>>}

Confidences == {DefaultMinConfidence - 1, VisionMinConfidence}

OpenParas == <<Para(<<Word(<<"O", "p", "e", "n">>)>>)>>

\* blocks that differ in geometry and confidence
GeoBlocks ==
    {[boundingBox |-> [vertices |-> v], confidence |-> Num(c),
      paragraphs |-> OpenParas] : v \in Boxes, c \in Confidences}
    \cup {[boundingBox |-> [vertices |-> Rect(1, 1)],
            confidence |-> Num(DefaultMinConfidence), paragraphs |-> OpenParas],
           [boundingBox |-> [vertices |-> Rect(ImgSide, ImgSide)],
            paragraphs |-> OpenParas],
           [confidence |-> Num(VisionMinConfidence), paragraphs |-> OpenParas],
           [boundingBox |-> Null, paragraphs |-> OpenParas]}

\* paragraph lists, among them empty words, empty paragraphs, absent keys
ParaLists ==
    {<<Para(<<Word(<<"W", "a">>)>>)>>,
     <<Para(<<Word(<<"W", "a">>), Word(<<"L">>)>>)>>,
     <<Para(<<Word(<<"W">>)>>), Para(<<Word(<<"L">>)>>)>>,
     <<Para(<<Word(<<>>), Word(<<"L">>)>>)>>,
     <<Para(<<>>), Para(<<Word(<<"L">>)>>)>>,
     <<Para(<<Word(<<"">>), [symbols |-> <<EmptyDict>>], EmptyDict>>),
       EmptyDict>>,
     <<>>}

\* blocks that differ in text; all are as large as the image
TextBlocks ==
    {[boundingBox |-> [vertices |-> Rect(ImgSide + 1, ImgSide)],
      confidence |-> Num(VisionMinConfidence), paragraphs |-> ps] :
        ps \in ParaLists}
    \cup {[boundingBox |-> [vertices |-> Rect(ImgSide + 1, ImgSide)],
            confidence |-> Num(DefaultMinConfidence - 1),
            paragraphs |-> <<Para(<<Word(<<"W", "a">>)>>)>>],
           [boundingBox |-> [vertices |-> Rect(ImgSide + 1, ImgSide)]]}

SeqsUpTo(S, n) == UNION {[1..m -> S] : m \in 0..n}

Page(bs) == [blocks |-> bs]

\* one page, or two pages with the blocks split between them
PageLayouts(bs) ==
    {<<Page(bs)>>}
    \cup {<<Page(SubSeq(bs, 1, k)), Page(SubSeq(bs, k + 1, Len(bs)))>> :
            k \in 0..Len(bs)}

BlockSeqs == SeqsUpTo(GeoBlocks, MaxBlocks) \cup SeqsUpTo(TextBlocks, MaxBlocks)

RawText == "RAW"

Annotations ==
    {[pages |-> ps, text |-> RawText] :
        ps \in UNION {PageLayouts(bs) : bs \in BlockSeqs}}
    \cup {[pages |-> ps] :
        ps \in UNION {PageLayouts(bs) : bs \in SeqsUpTo(GeoBlocks, 1)}}
    \cup {[pages |-> <<>>, text |-> RawText], [pages |-> <<>>],
          [text |-> RawText], [pages |-> <<EmptyDict>>, text |-> RawText],
          [pages |-> <<>>, text |-> ""], EmptyDict, Null}

----------------------------------------------------------------------------
(* Properties of the filter, stated from the specification's words *)

SetMax(S) == CHOOSE m \in S : \A k \in S : k <= m
SetMin(S) == CHOOSE m \in S : \A k \in S : m <= k
Range(s) == {s[i] : i \in 1..Len(s)}

InputBlocks == IF Falsy(full_text_anno) THEN <<>>
               ELSE BlocksOf(Get(full_text_anno, "pages", <<>>))

RefXCoords(b) == {Get(v, "x", Num(0)).n : v \in Range(VerticesOf(b))}
RefYCoords(b) == {Get(v, "y", Num(0)).n : v \in Range(VerticesOf(b))}

\* axis-aligned bounding-box area of a block
RefBoxArea(b) ==
    IF VerticesOf(b) = <<>> THEN 0
    ELSE (SetMax(RefXCoords(b)) - SetMin(RefXCoords(b)))
         * (SetMax(RefYCoords(b)) - SetMin(RefYCoords(b)))

\* image area: largest x times largest y over every vertex, each at least 1
RefImageArea ==
    LET xs == UNION {RefXCoords(b) : b \in Range(InputBlocks)} \cup {0}
        ys == UNION {RefYCoords(b) : b \in Range(InputBlocks)} \cup {0}
        side(m) == IF m = 0 THEN 1 ELSE m
    IN  side(SetMax(xs)) * side(SetMax(ys))

RefConfidence(b) == IF "confidence" \in DOMAIN b THEN b.confidence.n ELSE 100

RefRejected(b) ==
    \/ RefBoxArea(b) * min_block_area_ratio.den
            < min_block_area_ratio.num * RefImageArea
    \/ RefConfidence(b) < min_confidence

RECURSIVE RefSurvivors(_)
RefSurvivors(blocks) ==
    IF blocks = <<>> THEN <<>>
    ELSE IF RefRejected(Head(blocks)) THEN RefSurvivors(Tail(blocks))
    ELSE <<Head(blocks)>> \o RefSurvivors(Tail(blocks))

Returned == fpc = "returned" /\ ~fout.raised

\* C1: for a non-null annotation none of whose blocks survives the filter
\* (or that has no block), the result is annotation.text as given, and the
\* empty string when the text field is absent.
C1_FallbackToRawText ==
    (fpc = "returned" /\ ~IsNull(full_text_anno)
        /\ RefSurvivors(InputBlocks) = <<>>)
    => /\ ~fout.raised
       /\ fout.text = IF "text" \in DOMAIN full_text_anno
                      THEN full_text_anno.text ELSE ""

\* two blocks, both rejected, and the raw text came back
C1_Witness ==
    /\ Returned
    /\ Len(InputBlocks) = 2
    /\ RefSurvivors(InputBlocks) = <<>>
    /\ \E i \in 1..2 : RefConfidence(InputBlocks[i]) >= min_confidence
    /\ \E i \in 1..2 : RefConfidence(InputBlocks[i]) < min_confidence
    /\ fout.text = RawText

\* C2: a block is skipped exactly when its area ratio is strictly below the
\* area-ratio threshold or its confidence strictly below the confidence
\* threshold; a block exactly at the area threshold is kept.
C2_RejectIffBelowEitherThreshold ==
    Returned =>
        /\ Len(fout.verdicts) = Len(InputBlocks)
        /\ \A i \in 1..Len(InputBlocks) :
            (fout.verdicts[i] = "skip") <=> RefRejected(InputBlocks[i])

\* a block exactly at the area-ratio threshold and exactly at the confidence
\* threshold was kept
C2_Witness ==
    /\ Returned
    /\ \E i \in 1..Len(InputBlocks) :
        /\ RefBoxArea(InputBlocks[i]) * min_block_area_ratio.den
                = min_block_area_ratio.num * RefImageArea
        /\ RefConfidence(InputBlocks[i]) = min_confidence
        /\ fout.verdicts[i] = "keep"

\* the word, paragraph and block texts as the specification words them:
\* every word and every paragraph takes part in the join
NaiveParagraph(para) ==
    LET ws == Get(para, "words", <<>>)
    IN  Join(" ", [i \in 1..Len(ws) |-> WordText(ws[i])])

NaiveBlock(b) ==
    LET ps == Get(b, "paragraphs", <<>>)
    IN  Join("\n", [i \in 1..Len(ps) |-> NaiveParagraph(ps[i])])

NaiveTexts(blocks) == [i \in 1..Len(blocks) |-> NaiveBlock(blocks[i])]

\* C3 as claimed: whenever a block survives, the result is the join by blank
\* lines of the non-empty naive block texts, in input order.
C3_AsClaimed ==
    (Returned /\ RefSurvivors(InputBlocks) # <<>>)
    => fout.text = Join("\n\n", NonEmpty(NaiveTexts(RefSurvivors(InputBlocks))))

\* the same with empty words and empty paragraphs left out
RefSymbols(w) ==
    LET syms == Get(w, "symbols", <<>>)
    IN  [i \in 1..Len(syms) |-> Get(syms[i], "text", "")]

RECURSIVE Concat(_)
Concat(ss) == IF ss = <<>> THEN "" ELSE Head(ss) \o Concat(Tail(ss))

RECURSIVE SpaceSeparated(_)
SpaceSeparated(ss) ==
    IF ss = <<>> THEN ""
    ELSE IF Tail(ss) = <<>> THEN Head(ss)
    ELSE Head(ss) \o " " \o SpaceSeparated(Tail(ss))

RECURSIVE LineSeparated(_, _)
LineSeparated(ss, n) ==
    IF ss = <<>> THEN ""
    ELSE IF Tail(ss) = <<>> THEN Head(ss)
    ELSE Head(ss) \o (IF n = 1 THEN "\n" ELSE "\n\n")
         \o LineSeparated(Tail(ss), n)

RefParagraph(para) ==
    LET ws == Get(para, "words", <<>>)
    IN  SpaceSeparated(SelectSeq([i \in 1..Len(ws) |-> Concat(RefSymbols(ws[i]))],
                                 LAMBDA t : t # ""))

RefBlock(b) ==
    LET ps == Get(b, "paragraphs", <<>>)
    IN  LineSeparated(SelectSeq([i \in 1..Len(ps) |-> RefParagraph(ps[i])],
                                LAMBDA t : t # ""), 1)

RefTexts(blocks) ==
    SelectSeq([i \in 1..Len(blocks) |-> RefBlock(blocks[i])], LAMBDA t : t # "")

\* C3, amended: words whose symbols concatenate to the empty string and
\* paragraphs left without a word are dropped before joining; when a
\* surviving block has a non-empty text, the result is the join by blank
\* lines of the non-empty block texts of the surviving blocks, in
\* page-then-block order.
C3_Reconstruction ==
    (Returned /\ RefTexts(RefSurvivors(InputBlocks)) # <<>>)
    => fout.text = LineSeparated(RefTexts(RefSurvivors(InputBlocks)), 2)

\* two surviving blocks on two pages, with two words and two paragraphs
C3_Witness ==
    /\ Returned
    /\ Len(Get(full_text_anno, "pages", <<>>)) = 2
    /\ Len(RefSurvivors(InputBlocks)) = 2
    /\ fout.text = "Wa L" \o "\n\n" \o "W" \o "\n" \o "L"

\* C11: for a non-null, non-empty annotation whose text field is a non-empty
\* string the filter returns a non-empty string, whatever the blocks and the
\* thresholds are; it returns the empty string only when the annotation is
\* null or empty, or its text is empty or absent.
C11_NonEmptyWhenRawTextNonEmpty ==
    fpc = "returned"
    => /\ (/\ ~Falsy(full_text_anno)
           /\ "text" \in DOMAIN full_text_anno
           /\ full_text_anno.text # "")
          => (~fout.raised /\ fout.text # "")
       /\ (~fout.raised /\ fout.text = "")
          => \/ Falsy(full_text_anno)
             \/ "text" \notin DOMAIN full_text_anno
             \/ full_text_anno.text = ""

\* two blocks survive, both reconstruct to the empty string, and the raw
\* text came back
C11_Witness ==
    /\ Returned
    /\ Len(RefSurvivors(InputBlocks)) = 2
    /\ RefTexts(RefSurvivors(InputBlocks)) = <<>>
    /\ full_text_anno.text = RawText
    /\ fout.text = RawText

----------------------------------------------------------------------------
(* POST /ocr_translate *)

DemoText == "Demo text on sign"
DemoPrefix == "Demo translation → "

IsStr(v) == "s" \in DOMAIN v
\* Python truthiness of a JSON scalar
Truthy(v) ==
    IF IsNull(v) THEN FALSE
    ELSE IF IsStr(v) THEN v.s # ""
    ELSE IF IsNum(v) THEN v.n # 0
    ELSE TRUE

DataUrl == "data:image/png;base64,QUJD"

\* _extract_base64_from_data_url, lines 36-41, on the strings of the model:
\* `"," in data_url` raises TypeError on a value that is not a string
_extract_base64_from_data_url(data_url) ==
    IF ~Truthy(data_url) THEN [raised |-> FALSE, content |-> ""]
    ELSE IF ~IsStr(data_url) THEN [raised |-> TRUE, content |-> ""]
    ELSE [raised |-> FALSE,
          content |-> IF data_url.s = DataUrl THEN "QUJD" ELSE data_url.s]

\* str.lower() on the language codes of the model
Lower(t) == CASE t = "FR" -> "fr" [] t = "EN" -> "en" [] OTHER -> t

\* lines 236-238, outside the try: body.get raises AttributeError on a body
\* that is no JSON object, and .lower() on a target that is no string
ParseRequest(b) ==
    IF "array" \in DOMAIN b THEN [raised |-> TRUE, image |-> Null, target |-> ""]
    ELSE
        LET image == Get(b, "image", [s |-> ""])
            t == Get(b, "target", Null)
        IN  IF ~Truthy(t) THEN [raised |-> FALSE, image |-> image, target |-> "en"]
            ELSE IF ~IsStr(t) THEN [raised |-> TRUE, image |-> image, target |-> ""]
            ELSE [raised |-> FALSE, image |-> image, target |-> Lower(t.s)]

\* lines 128-136 of call_google_vision_text_detection: the text drawn from a
\* decoded response body
VisionText(data) ==
    LET rs == Get(data, "responses", <<>>)
    IN  IF rs = <<>> THEN ""              \* KeyError or IndexError, twice
        ELSE
            LET full == Get(rs[1], "fullTextAnnotation", Null)
                f == _extract_filtered_text(
                        full, [num |-> AreaRatioNum, den |-> AreaRatioDen],
                        VisionMinConfidence)
            IN  IF ~f.raised THEN f.text
                ELSE IF Falsy(full) THEN ""
                ELSE Get(full, "text", "")

\* lines 148-155 of call_google_translate
TranslateResult(data) ==
    LET ts == Get(Get(data, "data", EmptyDict), "translations", <<>>)
    IN  IF ts = <<>>
        THEN [translatedText |-> "", detectedSourceLanguage |-> ""]
        ELSE [translatedText |-> Get(ts[1], "translatedText", ""),
              detectedSourceLanguage |-> Get(ts[1], "detectedSourceLanguage", "")]

\* line 142
NoKeyTranslation == [translatedText |-> "", detectedSourceLanguage |-> ""]

\* lines 246-248
OrDemoTextKept(text) == text
OrDemoText(text) == IF text = "" THEN DemoText ELSE text

\* lines 250-251
TranslatedOrDemoFixed(tr, text) ==
    IF tr.translatedText # "" THEN tr.translatedText ELSE DemoPrefix \o DemoText
TranslatedOrDemo(tr, text) ==
    IF tr.translatedText # "" THEN tr.translatedText ELSE DemoPrefix \o text

SourceOrAuto(tr) ==
    IF tr.detectedSourceLanguage # "" THEN tr.detectedSourceLanguage ELSE "auto"

\* line 252: `except Exception` catches every exception the try block raises
CaughtRequestException(exc) == exc \in {"ConnectionError", "Timeout", "HTTPError"}
Caught(exc) == TRUE

\* lines 257-262
JsonResponse(d, t, s, tl) ==
    [status |-> 200,
     body |-> [detected_text |-> d, translated_text |-> t,
               source_lang |-> s, target_lang |-> tl]]

\* an exception that leaves the view: Flask answers 500
ServerError == [status |-> 500, body |-> EmptyDict]
NotSent == [status |-> 0, body |-> EmptyDict]

\* where the handler stands once the except block has run: at the return of
\* line 257, and the request is over
AfterExceptRetry == "start"
AfterExcept == "done"

\* the handler after an exception `exc` in the try block, lines 252-262
Raise(exc) ==
    /\ pc' = AfterExcept
    /\ IF Caught(exc)
       THEN /\ detected_text' = DemoText
            /\ translated_text' = DemoPrefix \o DemoText
            /\ source_lang' = "auto"
            /\ response' = JsonResponse(DemoText, DemoPrefix \o DemoText,
                                        "auto", target_lang')
       ELSE /\ response' = ServerError
            /\ UNCHANGED <<detected_text, translated_text, source_lang>>

\* the handler after call_google_translate returned `tr`, lines 250-262
Finish(tr) ==
    /\ pc' = "done"
    /\ translated_text' = TranslatedOrDemo(tr, detected_text)
    /\ source_lang' = SourceOrAuto(tr)
    /\ response' = JsonResponse(detected_text, translated_text', source_lang',
                                target_lang)
    /\ UNCHANGED detected_text

\* the handler after call_google_vision_text_detection returned `text`:
\* lines 246-248, up to the call of line 249
AfterVision(text) ==
    /\ ocr_text' = text
    /\ detected_text' = OrDemoText(text)
    /\ pc' = "tr_call"
    /\ UNCHANGED <<translated_text, source_lang, tr_text, response>>

\* lines 236-245 and 111-125: the request arrives; the handler runs up to
\* the OCR request, or past call_google_vision_text_detection when no
\* request is made
Start ==
    /\ pc = "start"
    /\ LET req == ParseRequest(body)
           b64 == _extract_base64_from_data_url(req.image)
       IN  IF req.raised
           THEN /\ pc' = "done"
                /\ response' = ServerError
                /\ UNCHANGED <<detected_text, translated_text, source_lang,
                               target_lang, ocr_text, tr_text, log>>
           ELSE /\ target_lang' = req.target
                /\ IF ~api_key
                   THEN AfterVision("") /\ UNCHANGED log
                   ELSE IF b64.raised
                   THEN Raise("TypeError") /\ UNCHANGED <<ocr_text, tr_text, log>>
                   ELSE /\ pc' = "ocr_wait"
                        /\ log' = Append(log, "ocr_post")
                        /\ UNCHANGED <<detected_text, translated_text,
                                       source_lang, ocr_text, tr_text, response>>
    /\ UNCHANGED <<api_key, body>>

\* what requests.post, raise_for_status and r.json() can raise
TransportErrors == {"ConnectionError", "Timeout", "HTTPError", "JSONDecodeError"}

\* lines 125-127 raise: the exception reaches the except of line 252
OcrFails ==
    /\ pc = "ocr_wait"
    /\ UNCHANGED <<api_key, body, target_lang, ocr_text, tr_text>>
    /\ \E exc \in TransportErrors :
        /\ log' = Append(log, "ocr_fail")
        /\ Raise(exc)

\* lines 139-145: call_google_translate is entered with detected_text
TranslateCall ==
    /\ pc = "tr_call"
    /\ tr_text' = detected_text
    /\ IF ~api_key
       THEN Finish(NoKeyTranslation) /\ UNCHANGED log
       ELSE /\ pc' = "tr_wait"
            /\ log' = Append(log, "tr_post")
            /\ UNCHANGED <<detected_text, translated_text, source_lang, response>>
    /\ UNCHANGED <<api_key, body, target_lang, ocr_text>>

\* lines 145-147 raise
TranslateFails ==
    /\ pc = "tr_wait"
    /\ UNCHANGED <<api_key, body, target_lang, ocr_text, tr_text>>
    /\ \E exc \in TransportErrors :
        /\ log' = Append(log, "tr_fail")
        /\ Raise(exc)

\* annotations the OCR collaborator may answer with
GoodBlock(ps, c) ==
    [boundingBox |-> [vertices |-> Rect(ImgSide, ImgSide)],
     confidence |-> Num(c), paragraphs |-> ps]

VisionAnnotations ==
    {[pages |-> <<Page(<<GoodBlock(OpenParas, VisionMinConfidence)>>)>>,
      text |-> RawText],
     [pages |-> <<Page(<<GoodBlock(OpenParas, DefaultMinConfidence)>>)>>,
      text |-> "Bonjour"],
     [pages |-> <<Page(<<GoodBlock(OpenParas, VisionMinConfidence),
                         [boundingBox |-> [vertices |-> <<[x |-> NonNumeric]>>],
                          paragraphs |-> OpenParas]>>)>>,
      text |-> RawText],
     [pages |-> <<>>, text |-> " "],
     [pages |-> <<>>, text |-> ""],
     [pages |-> <<>>]}

\* decoded bodies of a 2xx answer of the OCR collaborator
VisionBodies ==
    {EmptyDict, [responses |-> <<>>], [responses |-> <<EmptyDict>>]}
    \cup {[responses |-> <<[fullTextAnnotation |-> a]>>] : a \in VisionAnnotations}

\* decoded bodies of a 2xx answer of the translation collaborator
TranslateBodies ==
    {EmptyDict, [data |-> EmptyDict], [data |-> [translations |-> <<>>]]}
    \cup {[data |-> [translations |-> <<t>>]] :
            t \in {[translatedText |-> "Hello", detectedSourceLanguage |-> "fr"],
                   [translatedText |-> "Hello"],
                   [translatedText |-> "", detectedSourceLanguage |-> "fr"],
                   [detectedSourceLanguage |-> "fr"]}}

RequestBodies ==
    {EmptyDict,
     [image |-> [s |-> DataUrl]],
     [image |-> [s |-> "QUJD"], target |-> [s |-> "FR"]],
     [image |-> [s |-> DataUrl], target |-> [s |-> ""]],
     [image |-> [n |-> 5], target |-> [s |-> "fr"]],
     [image |-> [s |-> DataUrl], target |-> [n |-> 5]],
     [array |-> TRUE]}

\* lines 125-136: the OCR collaborator answers 2xx with a JSON body
OcrReturns ==
    /\ pc = "ocr_wait"
    /\ UNCHANGED <<api_key, body, target_lang>>
    /\ \E data \in VisionBodies :
        /\ log' = Append(log, "ocr_ok")
        /\ AfterVision(VisionText(data))

\* lines 145-155 and 250-262: the translation collaborator answers 2xx
TranslateReturns ==
    /\ pc = "tr_wait"
    /\ UNCHANGED <<api_key, body, target_lang, ocr_text, tr_text>>
    /\ \E data \in TranslateBodies :
        /\ log' = Append(log, "tr_ok")
        /\ Finish(TranslateResult(data))

----------------------------------------------------------------------------
(* GET /attractions and GET /food *)

(* Places lie on the meridian of the centre and latitudes are held in      *)
(* metres of arc, so that the haversine distance of lines 331-339 is the   *)
(* absolute difference of the two latitudes.  distance_km is held in       *)
(* tenths of a kilometre.                                                  *)

AttractionsMax == 6       \* attractions[:6]
FoodMax == 6              \* food_spots[:6]
WalkPace == 8333          \* 83.33 m/min, in hundredths

Abs(k) == IF k < 0 THEN -k ELSE k

\* round() of the fraction a/b, b > 0: to nearest, ties to even
Round(a, b) ==
    LET q == a \div b
        r == a % b
    IN  IF 2 * r < b THEN q
        ELSE IF 2 * r > b THEN q + 1
        ELSE IF q % 2 = 0 THEN q ELSE q + 1

calculate_distance(lat1, lon1, lat2, lon2) == Abs(lat2 - lat1)

\* round(distance_m / 1000, 1), in tenths
DistanceKm(distance_m) == Round(distance_m, 100)
\* round(distance_m / 83.33)
WalkingTime(distance_m) == Round(distance_m * 100, WalkPace)

\* str.strip() and str.title() on the strings of the model
Strip(t) == CASE t = "  " -> "" [] t = " Orsay " -> "Orsay" [] OTHER -> t
Title(t) == CASE t = "italian" -> "Italian"
              [] t = "coffee_shop" -> "Coffee_Shop"
              [] t = "restaurant" -> "Restaurant"
              [] t = "cafe" -> "Cafe"
              [] t = "bar" -> "Bar"
              [] OTHER -> t
\* 'coffee' in cuisine.lower()
HasCoffee(cuisine) == cuisine = "Coffee_Shop"

\* lines 345-353 and 456-464
Address(tags) ==
    LET parts == NonEmpty(<<Get(tags, "addr:housenumber", ""),
                            Get(tags, "addr:street", ""),
                            Get(tags, "addr:city", "")>>)
    IN  IF parts = <<>> THEN "Address not available" ELSE Join(", ", parts)

HasCoordinates(e) == "lat" \in DOMAIN e /\ "lon" \in DOMAIN e

\* lines 322-372: the entry of one element, or none.  The fields id and
\* description, which the ranking never reads, are left out.
AttractionEntry(e, lat, lon) ==
    LET tags == Get(e, "tags", EmptyDict)
        name == Strip(Get(tags, "name", ""))
        distance_m == calculate_distance(lat, lon, e.lat, e.lon)
    IN  IF ~HasCoordinates(e) \/ name = "" THEN <<>>
        ELSE <<[name |-> name,
                type |-> Get(tags, "tourism",
                             Get(tags, "historic",
                                 Get(tags, "amenity", "attraction"))),
                lat |-> e.lat, lon |-> e.lon,
                address |-> Address(tags),
                distance_km |-> DistanceKm(distance_m),
                walking_time_min |-> WalkingTime(distance_m),
                website |-> Get(tags, "website", ""),
                opening_hours |-> Get(tags, "opening_hours", "")]>>

\* lines 433-499
FoodEntry(e, lat, lon) ==
    LET tags == Get(e, "tags", EmptyDict)
        name == Strip(Get(tags, "name", ""))
        cuisine == Title(Get(tags, "cuisine", ""))
        amenity == Get(tags, "amenity", "")
        distance_m == calculate_distance(lat, lon, e.lat, e.lon)
    IN  IF ~HasCoordinates(e) \/ amenity = "fast_food" \/ HasCoffee(cuisine)
           \/ name = ""
        THEN <<>>
        ELSE <<[name |-> name,
                type |-> Title(amenity),
                cuisine |-> cuisine,
                lat |-> e.lat, lon |-> e.lon,
                address |-> Address(tags),
                distance_km |-> DistanceKm(distance_m),
                walking_time_min |-> WalkingTime(distance_m),
                website |-> Get(tags, "website", ""),
                opening_hours |-> Get(tags, "opening_hours", "")]>>

\* lines 375-388
attraction_priority(a) ==
    LET priority == CASE a.type \in {"museum", "gallery"} -> 3
                      [] a.type \in {"monument", "memorial"} -> 2
                      [] a.type \in {"attraction", "viewpoint", "artwork"} -> 1
                      [] OTHER -> 0
    IN  <<priority, -a.distance_km>>

\* lines 502-512
food_priority(f) ==
    <<(IF f.cuisine # "" THEN 2 ELSE 0)
        + (IF f.website # "" THEN 1 ELSE 0)
        + (IF f.opening_hours # "" THEN 1 ELSE 0),
      -f.distance_km>>

\* tuple comparison of two keys
KeyLess(k1, k2) == k1[1] < k2[1] \/ (k1[1] = k2[1] /\ k1[2] < k2[2])

Priority(ep, x) ==
    IF ep = "attractions" THEN attraction_priority(x) ELSE food_priority(x)

\* list.sort(key=..., reverse=True): descending, and stable
RECURSIVE InsertDesc(_, _, _)
InsertDesc(sorted, x, ep) ==
    IF sorted = <<>> THEN <<x>>
    ELSE IF KeyLess(Priority(ep, Head(sorted)), Priority(ep, x))
    THEN <<x>> \o sorted
    ELSE <<Head(sorted)>> \o InsertDesc(Tail(sorted), x, ep)

RECURSIVE SortDesc(_, _, _)
SortDesc(items, ep, acc) ==
    IF items = <<>> THEN acc
    ELSE SortDesc(Tail(items), ep, InsertDesc(acc, Head(items), ep))

Entries(es, ep, lat, lon) ==
    Flatten([i \in 1..Len(es) |->
                IF ep = "attractions" THEN AttractionEntry(es[i], lat, lon)
                ELSE FoodEntry(es[i], lat, lon)])

\* lines 374-391 and 501-515
Ranked(es, ep, lat, lon) ==
    LET sorted == SortDesc(Entries(es, ep, lat, lon), ep, <<>>)
        cap == IF ep = "attractions" THEN AttractionsMax ELSE FoodMax
    IN  SubSeq(sorted, 1, IF Len(sorted) < cap THEN Len(sorted) ELSE cap)

NoAnswer == [status |-> 0, items |-> <<>>]

\* lines 287-316 and 407-427: the query is read and the Overpass request made
PlacesStart ==
    /\ ppc = "start"
    /\ IF ~Truthy(Get(query, "lat", Null)) \/ ~Truthy(Get(query, "lon", Null))
       THEN /\ ppc' = "done"
            /\ presponse' = [status |-> 400, items |-> <<>>]
       ELSE /\ ppc' = "wait"
            /\ UNCHANGED presponse
    /\ UNCHANGED <<endpoint, query, elements>>

\* lines 316-317, 400-401: requests.RequestException
PlacesFail ==
    /\ ppc = "wait"
    /\ ppc' = "done"
    /\ presponse' = [status |-> 500, items |-> <<>>]
    /\ UNCHANGED <<endpoint, query, elements>>

MaxFeatures == 7     \* elements in one Overpass answer

Element(lat, tags) == [lat |-> lat, lon |-> 1000, tags |-> tags]

RankedElements ==
    {Element(1120, [name |-> "Louvre", tourism |-> "museum",
                    amenity |-> "restaurant", website |-> "w"]),
     Element(1140, [name |-> " Orsay ", tourism |-> "museum",
                    amenity |-> "restaurant", website |-> "w"]),
     Element(700, [name |-> "Arc", historic |-> "monument",
                   amenity |-> "cafe", cuisine |-> "italian"]
                  @@ ("addr:street" :> "Rue") @@ ("addr:city" :> "Paris"))}

OtherElements ==
    {[tags |-> [name |-> "Nowhere", tourism |-> "museum"]],
     Element(1010, [name |-> "  ", tourism |-> "museum", amenity |-> "bar"]),
     Element(1260, [name |-> "Brew", amenity |-> "cafe",
                    cuisine |-> "coffee_shop"]),
     Element(1010, [name |-> "Stop", amenity |-> "fast_food",
                    opening_hours |-> "24/7"])}

ElementLists ==
    SeqsUpTo(RankedElements \cup OtherElements, 2)
    \cup [1..MaxFeatures -> RankedElements]

Queries ==
    {[lat |-> Num(1000), lon |-> Num(1000)], [lon |-> Num(1000)],
     [lat |-> Num(0), lon |-> Num(1000)]}

\* lines 318-398 and 429-522: the Overpass answer is ranked and returned
PlacesReturn ==
    /\ ppc = "wait"
    /\ \E es \in ElementLists :
        /\ elements' = es
        /\ presponse' = [status |-> 200,
                         items |-> Ranked(es, endpoint, query.lat.n, query.lon.n)]
    /\ ppc' = "done"
    /\ UNCHANGED <<endpoint, query>>

----------------------------------------------------------------------------
(* Specifications *)

FilterIdle ==
    /\ full_text_anno = Null
    /\ min_block_area_ratio = [num |-> AreaRatioNum, den |-> AreaRatioDen]
    /\ min_confidence = DefaultMinConfidence
    /\ fpc = "idle"
    /\ fout = FilterRun(Null, min_block_area_ratio, min_confidence)

RequestIdle ==
    /\ api_key = FALSE
    /\ body = EmptyDict
    /\ pc = "idle"
    /\ detected_text = ""
    /\ translated_text = ""
    /\ source_lang = ""
    /\ target_lang = ""
    /\ ocr_text = ""
    /\ tr_text = ""
    /\ log = <<>>
    /\ response = NotSent

PlacesIdle ==
    /\ endpoint = "attractions"
    /\ query = EmptyDict
    /\ ppc = "idle"
    /\ elements = <<>>
    /\ presponse = NoAnswer

\* one call of _extract_filtered_text
ExtractFilteredText ==
    /\ fpc = "call"
    /\ fout' = FilterRun(full_text_anno, min_block_area_ratio, min_confidence)
    /\ fpc' = "returned"
    /\ UNCHANGED <<full_text_anno, min_block_area_ratio, min_confidence>>
    /\ UNCHANGED <<rvars, pvars>>

InitFilterOn(annos) ==
    /\ full_text_anno \in annos
    /\ \E t \in Thresholds :
        /\ min_block_area_ratio = t.ratio
        /\ min_confidence = t.conf
    /\ fpc = "call"
    /\ fout = FilterRun(Null, min_block_area_ratio, min_confidence)
    /\ RequestIdle
    /\ PlacesIdle

InitFilter == InitFilterOn(Annotations)
NextFilter == ExtractFilteredText
SpecFilter == InitFilter /\ [][NextFilter]_vars

\* one POST /ocr_translate request
Init ==
    /\ api_key \in BOOLEAN
    /\ body \in RequestBodies
    /\ pc = "start"
    /\ detected_text = ""
    /\ translated_text = ""
    /\ source_lang = ""
    /\ target_lang = ""
    /\ ocr_text = ""
    /\ tr_text = ""
    /\ log = <<>>
    /\ response = NotSent
    /\ FilterIdle
    /\ PlacesIdle

Next ==
    \/ Start /\ UNCHANGED <<fvars, pvars>>
    \/ OcrFails /\ UNCHANGED <<fvars, pvars>>
    \/ OcrReturns /\ UNCHANGED <<fvars, pvars>>
    \/ TranslateCall /\ UNCHANGED <<fvars, pvars>>
    \/ TranslateFails /\ UNCHANGED <<fvars, pvars>>
    \/ TranslateReturns /\ UNCHANGED <<fvars, pvars>>

Spec == Init /\ [][Next]_vars

\* the translation stage alone: call_google_translate on a text, and the
\* lines 250-251 that follow it
TranslateTexts == {"", "Bonjour", "Hola", "Open", DemoText}
TargetLangs == {"en", "fr", "de"}

InitTranslate ==
    /\ api_key \in BOOLEAN
    /\ body = EmptyDict
    /\ pc = "tr_call"
    /\ detected_text \in TranslateTexts
    /\ translated_text = ""
    /\ source_lang = ""
    /\ target_lang \in TargetLangs
    /\ ocr_text = detected_text
    /\ tr_text = ""
    /\ log = <<>>
    /\ response = NotSent
    /\ FilterIdle
    /\ PlacesIdle

NextTranslate ==
    \/ TranslateCall /\ UNCHANGED <<fvars, pvars>>
    \/ TranslateFails /\ UNCHANGED <<fvars, pvars>>
    \/ TranslateReturns /\ UNCHANGED <<fvars, pvars>>

SpecTranslate == InitTranslate /\ [][NextTranslate]_vars

\* a block with a coordinate or a confidence that is no number, and blocks
\* with keys left out, next to a well-formed block
MalformedBlocks ==
    {GoodBlock(OpenParas, VisionMinConfidence),
     [boundingBox |-> [vertices |-> <<[x |-> NonNumeric, y |-> Num(1)],
                                      Vertex(ImgSide, ImgSide)>>],
      confidence |-> Num(VisionMinConfidence), paragraphs |-> OpenParas],
     [boundingBox |-> [vertices |-> Rect(ImgSide, ImgSide)],
      confidence |-> NonNumeric, paragraphs |-> OpenParas],
     [confidence |-> NonNumeric, paragraphs |-> OpenParas],
     [boundingBox |-> [vertices |-> <<[x |-> Num(ImgSide)], [y |-> Num(ImgSide)]>>],
      paragraphs |-> <<Para(<<Word(<<"W", "a">>)>>)>>],
     [paragraphs |-> OpenParas],
     [boundingBox |-> [vertices |-> Rect(ImgSide, ImgSide)]],
     GoodBlock(<<EmptyDict, Para(<<EmptyDict, [symbols |-> <<EmptyDict>>],
                                   Word(<<"L">>)>>)>>, VisionMinConfidence)}

MalformedAnnotations ==
    {[pages |-> ps, text |-> RawText] :
        ps \in UNION {PageLayouts(bs) : bs \in SeqsUpTo(MalformedBlocks, MaxBlocks)}}

InitMalformed == InitFilterOn(MalformedAnnotations)
SpecMalformed == InitMalformed /\ [][NextFilter]_vars

InitPlaces ==
    /\ endpoint \in {"attractions", "food"}
    /\ query \in Queries
    /\ ppc = "start"
    /\ elements = <<>>
    /\ presponse = NoAnswer
    /\ FilterIdle
    /\ RequestIdle

NextPlaces ==
    \/ PlacesStart /\ UNCHANGED <<fvars, rvars>>
    \/ PlacesFail /\ UNCHANGED <<fvars, rvars>>
    \/ PlacesReturn /\ UNCHANGED <<fvars, rvars>>

SpecPlaces == InitPlaces /\ [][NextPlaces]_vars

----------------------------------------------------------------------------
(* Properties of /ocr_translate *)

Last(s) == s[Len(s)]
Sent == pc = "done" /\ response.status = 200
Posts(kind) == {i \in 1..Len(log) : log[i] = kind}

\* C4 as claimed: when the translation collaborator fails, the answer is
\* "Demo translation → " followed by the text that was passed in for
\* translation, with source language "auto".
C4_AsClaimed ==
    (pc = "done" /\ log # <<>> /\ Last(log) = "tr_fail")
    => /\ response.status = 200
       /\ response.body.translated_text = DemoPrefix \o tr_text
       /\ response.body.source_lang = "auto"

\* C5: with no credential, translating a text T makes no outbound call and
\* yields "Demo translation → " followed by T, with source language "auto".
C5_NoCredentialFallback ==
    ~api_key =>
        /\ log = <<>>
        /\ pc = "done" =>
            /\ tr_text = ocr_text
            /\ response.status = 200
            /\ response.body.translated_text = DemoPrefix \o tr_text
            /\ response.body.source_lang = "auto"

\* translate("Bonjour", "en") without a credential
C5_Witness ==
    /\ pc = "done"
    /\ ~api_key
    /\ tr_text = "Bonjour"
    /\ target_lang = "en"
    /\ response.body.translated_text = "Demo translation → Bonjour"
    /\ response.body.source_lang = "auto"

\* C6: whatever the two collaborators do, a request whose body the handler
\* can read is answered, and answered with 200 and the four fields.
C6_Always200 ==
    ~ParseRequest(body).raised =>
        /\ pc # "done" => ENABLED Next
        /\ pc = "done" =>
            /\ response.status = 200
            /\ DOMAIN response.body =
                {"detected_text", "translated_text", "source_lang", "target_lang"}

\* the translation collaborator failed after the OCR collaborator answered,
\* and the request was answered with 200
C6_Witness ==
    /\ Sent
    /\ log = <<"ocr_post", "ocr_ok", "tr_post", "tr_fail">>

\* C7: at most one OCR call and at most one translation call; the
\* translation call starts only after the OCR call has returned; a failed
\* call is the last thing on the wire.
C7_CallsOnceInOrder ==
    /\ Cardinality(Posts("ocr_post")) <= 1
    /\ Cardinality(Posts("tr_post")) <= 1
    /\ \A i \in Posts("tr_post") :
        /\ \A j \in Posts("ocr_post") : j < i
        /\ \E k \in Posts("ocr_ok") : k < i
    /\ \A i \in Posts("ocr_fail") \cup Posts("tr_fail") : i = Len(log)
    /\ \A i \in Posts("ocr_fail") : pc = "done"

\* the OCR call failed and the request is over with that one call made
C7_Witness ==
    /\ Sent
    /\ log = <<"ocr_post", "ocr_fail">>

\* C9: an empty OCR result is replaced by the demo text before translation:
\* the translation collaborator is never sent an empty text and the
\* response's detected_text is never empty.
C9_NeverEmptyText ==
    /\ Posts("tr_post") # {} => tr_text # ""
    /\ (pc \in {"tr_call", "tr_wait"} /\ ocr_text = "") => detected_text = DemoText
    /\ Sent => response.body.detected_text # ""

\* the OCR collaborator answered without text, and the demo text went out
C9_Witness ==
    /\ Sent
    /\ Posts("ocr_ok") # {}
    /\ ocr_text = ""
    /\ Posts("tr_post") # {}
    /\ tr_text = DemoText
    /\ response.body.detected_text = DemoText

----------------------------------------------------------------------------
(* Properties of the filter on malformed blocks *)

\* a value with the documented default in place of what is absent or no number
Tolerant(d, k, default) ==
    LET v == Get(d, k, Num(default)) IN IF IsNum(v) THEN v.n ELSE default

TolerantXs(b) == {Tolerant(v, "x", 0) : v \in Range(VerticesOf(b))}
TolerantYs(b) == {Tolerant(v, "y", 0) : v \in Range(VerticesOf(b))}

TolerantBoxArea(b) ==
    IF VerticesOf(b) = <<>> THEN 0
    ELSE (SetMax(TolerantXs(b)) - SetMin(TolerantXs(b)))
         * (SetMax(TolerantYs(b)) - SetMin(TolerantYs(b)))

TolerantImageArea ==
    LET xs == UNION {TolerantXs(b) : b \in Range(InputBlocks)} \cup {0}
        ys == UNION {TolerantYs(b) : b \in Range(InputBlocks)} \cup {0}
        side(m) == IF m = 0 THEN 1 ELSE m
    IN  side(SetMax(xs)) * side(SetMax(ys))

TolerantKept(b) ==
    /\ TolerantBoxArea(b) * min_block_area_ratio.den
            >= min_block_area_ratio.num * TolerantImageArea
    /\ Tolerant(b, "confidence", 100) >= min_confidence

WellFormed(b) ==
    /\ DOMAIN b = {"boundingBox", "confidence", "paragraphs"}
    /\ IsNum(b.confidence)
    /\ \A v \in Range(VerticesOf(b)) :
        /\ DOMAIN v = {"x", "y"}
        /\ IsNum(v.x)
        /\ IsNum(v.y)

\* C8 as claimed: a malformed block never aborts the call; what is missing
\* or no number is replaced by its default, and every well-formed block
\* that passes both thresholds contributes its text.
C8_AsClaimed ==
    fpc = "returned" =>
        /\ ~fout.raised
        /\ \A i \in 1..Len(InputBlocks) :
            (WellFormed(InputBlocks[i]) /\ TolerantKept(InputBlocks[i])
                /\ RefBlock(InputBlocks[i]) # "")
            => RefBlock(InputBlocks[i]) \in Range(fout.collected_lines)

----------------------------------------------------------------------------
(* Properties of /attractions and /food *)

Items == presponse.items
Answered == ppc = "done" /\ presponse.status = 200
Centre == query.lat.n

\* distance from the centre of a returned entry, in metres
DistanceOf(x) == Abs(x.lat - Centre)
PriorityOf(x) == Priority(endpoint, x)[1]

\* x sorts strictly before y: higher priority, or the same and nearer
Before(x, y) ==
    \/ PriorityOf(x) > PriorityOf(y)
    \/ PriorityOf(x) = PriorityOf(y) /\ DistanceOf(x) < DistanceOf(y)

EligibleEntries == Range(Entries(elements, endpoint, Centre, query.lon.n))

\* C10 as claimed: the results hold only named features with coordinates,
\* at most 6 of them, by priority descending and then by distance from the
\* centre ascending, and nothing cut by the cap sorts before a result.
C10_AsClaimed ==
    Answered =>
        /\ \A i \in 1..Len(Items) :
            /\ Items[i].name # ""
            /\ {"lat", "lon"} \subseteq DOMAIN Items[i]
        /\ Len(Items) <= 6
        /\ \A i, j \in 1..Len(Items) : i < j => ~Before(Items[j], Items[i])
        /\ \A x \in EligibleEntries \ Range(Items) :
            \A i \in 1..Len(Items) : ~Before(x, Items[i])

====
